---- MODULE Spec2Model ----
(***************************************************************************)
(* Model of the watercolour-painting front end:                            *)
(*   - geminiService.ts : generateWatercolourPainting, the retry loop      *)
(*     around one remote generateContent call;                             *)
(*   - the App component: the React state, handleShow3DView, initMap,      *)
(*     captureMapView, handleGenerateWatercolour, handleBackToMap.         *)
(*                                                                         *)
(* Strings are sequences of tokens.  A token stands for a run of           *)
(* characters that the code treats alike: "data:", "image/", ";base64,",   *)
(* a run of word characters ("png", "jpeg"), a line terminator ("LF"),     *)
(* the internal-error markers ("c500" for the text "code":500, and         *)
(* "INTERNAL"), and other text.  String operations of the code (regular    *)
(* expression match, includes, template literals) are computed on these    *)
(* sequences.                                                              *)
(***************************************************************************)
EXTENDS Integers, Sequences, FiniteSets, TLC

VARIABLES
    address,               \* useState address
    error,                 \* useState error (NoError models null)
    isLoading,             \* useState isLoading
    mapInitialized,        \* useState mapInitialized
    isGeneratingPainting,  \* useState isGeneratingPainting
    watercolourPainting,   \* useState watercolourPainting ('' is <<>>)
    capturedMapImage,      \* useState capturedMapImage ('' is <<>>)
    mapInstance,           \* mapInstanceRef.current (exists = FALSE models null)
    markerInstance,        \* markerInstanceRef.current (exists = FALSE models null)
    show,                  \* the handleShow3DView invocation in flight, if any
    initMaps,              \* initMap invocations suspended at their awaits
    gen,                   \* handleGenerateWatercolour invocations in flight
    epoch,                 \* history: number of completed initMap calls
    done,                  \* history: how the last finished generation chain ended
    svc                    \* a direct invocation of generateWatercolourPainting

vars == <<address, error, isLoading, mapInitialized, isGeneratingPainting,
          watercolourPainting, capturedMapImage, mapInstance, markerInstance,
          show, initMaps, gen, epoch, done, svc>>

appVars == <<address, error, isLoading, mapInitialized, isGeneratingPainting,
             watercolourPainting, capturedMapImage, mapInstance, markerInstance,
             show, initMaps, gen, epoch, done>>

(***************************************************************************)
(* Bounds of the model.                                                    *)
(***************************************************************************)
MaxUrlLen == 5      \* longest source string handed to the generator directly
MaxParts == 2       \* most content parts in one response
MaxEpoch == 2       \* most completed initMap calls
MaxPending == 1     \* most initMap calls suspended at once
MaxChains == 2      \* most generation chains the model can hold in flight
MaxLoc == 2         \* number of distinct locations the geocoder can resolve

(***************************************************************************)
(* Program constants.                                                      *)
(***************************************************************************)
maxRetries == 3
initialDelay == 1000

SeqsUpTo(S, n) == UNION {[1..k -> S] : k \in 0..n}

(***************************************************************************)
(* String helpers.                                                         *)
(***************************************************************************)
\* String.prototype.includes for a one-token needle
Includes(s, tok) == \E i \in 1..Len(s) : s[i] = tok

\* \w : a run of word characters
IsWordTok(t) == t \in {"png", "jpeg"}

\* . does not match a line terminator
IsLineTerminator(t) == t = "LF"

\* the template literal's ${attempt}
NumTok(n) == <<"1", "2", "3", "4", "5">>[n]

RECURSIVE WordRun(_, _)
\* the greedy \w+ : how many word tokens follow from position i
WordRun(s, i) ==
    IF i <= Len(s) /\ IsWordTok(s[i]) THEN 1 + WordRun(s, i + 1) ELSE 0

NoMatch == [ok |-> FALSE, mimeType |-> <<>>, base64Data |-> <<>>]

\* imageDataUrl.match(/^data:(image\/\w+);base64,(.*)$/) with match[1], match[2]
ParseDataUrl(imageDataUrl) ==
    LET s == imageDataUrl
        k == WordRun(s, 3)
    IN  IF /\ Len(s) >= 4
           /\ s[1] = "data:"
           /\ s[2] = "image/"
           /\ k >= 1
           /\ 3 + k <= Len(s)
           /\ s[3 + k] = ";base64,"
           /\ \A j \in (4 + k)..Len(s) : ~IsLineTerminator(s[j])
        THEN [ok |-> TRUE, mimeType |-> SubSeq(s, 2, 2 + k),
              base64Data |-> SubSeq(s, 4 + k, Len(s))]
        ELSE NoMatch

\* `data:${mimeType};base64,${data}`
FormatDataUrl(mimeType, data) == <<"data:">> \o mimeType \o <<";base64,">> \o data

(***************************************************************************)
(* What the remote call can do: throw a value, or resolve to a response.   *)
(* A thrown Error carries its message in text; a thrown non-Error value    *)
(* carries what JSON.stringify gives for it.  A response carries the parts *)
(* of its first candidate; its text is the concatenation of the text parts.*)
(***************************************************************************)
TextPart(t) == [inline |-> FALSE, mimeType |-> <<>>, data |-> <<>>, text |-> t]
InlinePart(m, d) == [inline |-> TRUE, mimeType |-> m, data |-> d, text |-> <<>>]

PartA == InlinePart(<<"image/", "png">>, <<"A">>)
PartB == InlinePart(<<"image/", "jpeg">>, <<"B">>)

Parts == {TextPart(<<"x">>), TextPart(<<"INTERNAL">>), PartA, PartB}

ErrTexts == {<<"c500">>, <<"INTERNAL">>, <<"x">>, <<"x", "c500", "x">>, <<>>}

RECURSIVE ResponseText(_)
\* response.text : the text parts of the response, concatenated
ResponseText(parts) ==
    IF parts = <<>> THEN <<>>
    ELSE Head(parts).text \o ResponseText(Tail(parts))

Throw(isErr, t) == [type |-> "throw", isError |-> isErr, text |-> t, parts |-> <<>>]
Response(ps) == [type |-> "response", isError |-> FALSE, text |-> ResponseText(ps),
                 parts |-> ps]
NoOutcome == [type |-> "none", isError |-> FALSE, text |-> <<>>, parts |-> <<>>]

Outcomes ==
    {Throw(b, t) : b \in BOOLEAN, t \in ErrTexts}
    \cup {Response(ps) : ps \in SeqsUpTo(Parts, MaxParts)}

(***************************************************************************)
(* generateWatercolourPainting                                             *)
(***************************************************************************)
\* A faulty variant: the last part that carries inline data
FindLastImagePart(parts) ==
    IF \E i \in 1..Len(parts) : parts[i].inline
    THEN CHOOSE i \in 1..Len(parts) :
            parts[i].inline /\ \A j \in (i + 1)..Len(parts) : ~parts[j].inline
    ELSE 0

\* parts.find(part => part.inlineData) : index of the first such part, 0 if none
FindImagePart(parts) ==
    IF \E i \in 1..Len(parts) : parts[i].inline
    THEN CHOOSE i \in 1..Len(parts) :
            parts[i].inline /\ \A j \in 1..(i - 1) : ~parts[j].inline
    ELSE 0

\* the Error thrown when the response has no image part
TextError(textResponse) ==
    [isError |-> TRUE,
     text |-> <<"TEXT_NOT_IMAGE">>
              \o (IF textResponse = <<>> THEN <<"NO_TEXT_RECEIVED">> ELSE textResponse)]

\* error instanceof Error ? error.message : JSON.stringify(error)
ErrorMessageOf(caught) == caught.text

\* errorMessage.includes('"code":500') || errorMessage.includes('INTERNAL')
IsInternalError(errorMessage) ==
    Includes(errorMessage, "c500") \/ Includes(errorMessage, "INTERNAL")

\* A faulty variant: the last attempt is retried as well
ShouldRetryAlways(isInternalError, attempt) == isInternalError /\ attempt <= maxRetries

\* isInternalError && attempt < maxRetries
ShouldRetry(isInternalError, attempt) == isInternalError /\ attempt < maxRetries

\* A faulty variant: the exponent is the attempt itself
BackoffDelayLate(attempt) == initialDelay * 2 ^ attempt

\* initialDelay * Math.pow(2, attempt - 1)
BackoffDelay(attempt) == initialDelay * 2 ^ (attempt - 1)

\* the message of the Error thrown when the loop gives up
FinalError(caught, attempt) ==
    IF caught.isError
    THEN <<"FAILED_AFTER", NumTok(attempt), "DETAILS">> \o caught.text
    ELSE <<"FAILED_AFTER", NumTok(attempt), "SEE_CONSOLE">>

InvalidUrlError == <<"INVALID_DATA_URL">>
UnreachableError == <<"FAILED_AFTER_ALL_RETRIES">>

Ev(e, n) == [ev |-> e, n |-> n]

GenIdle ==
    [pc |-> "idle", attempt |-> 0, mimeType |-> <<>>, base64Data |-> <<>>,
     trace |-> <<>>, last |-> NoOutcome, result |-> <<>>, err |-> <<>>]

\* The call itself, up to the first await: validation, then the first request.
GenInvoke(imageDataUrl) ==
    LET match == ParseDataUrl(imageDataUrl)
    IN  IF ~match.ok
        THEN [GenIdle EXCEPT !.pc = "thrown", !.err = InvalidUrlError]
        ELSE [GenIdle EXCEPT !.pc = "awaiting", !.attempt = 1,
                             !.mimeType = match.mimeType,
                             !.base64Data = match.base64Data,
                             !.trace = <<Ev("call", 1)>>]

\* the catch block
GenCatch(g, caught) ==
    LET errorMessage == ErrorMessageOf(caught)
        isInternalError == IsInternalError(errorMessage)
    IN  IF ShouldRetry(isInternalError, g.attempt)
        THEN [g EXCEPT !.pc = "waiting",
                       !.trace = Append(@, Ev("wait", BackoffDelay(g.attempt)))]
        ELSE [g EXCEPT !.pc = "thrown", !.err = FinalError(caught, g.attempt)]

\* the remote call settles: the rest of the try block, and the catch block
GenOnResponse(g, out) ==
    LET g1 == [g EXCEPT !.last = out]
    IN  IF out.type = "throw"
        THEN GenCatch(g1, [isError |-> out.isError, text |-> out.text])
        ELSE LET i == FindImagePart(out.parts)
             IN  IF i # 0
                 THEN [g1 EXCEPT !.pc = "returned",
                                 !.result = FormatDataUrl(out.parts[i].mimeType,
                                                          out.parts[i].data)]
                 ELSE GenCatch(g1, TextError(out.text))

\* the backoff timer fires: continue, attempt++, the loop test, the next request
GenOnTimer(g) ==
    IF g.attempt + 1 <= maxRetries
    THEN [g EXCEPT !.pc = "awaiting", !.attempt = @ + 1,
                   !.trace = Append(@, Ev("call", g.attempt + 1))]
    ELSE [g EXCEPT !.pc = "thrown", !.attempt = @ + 1, !.err = UnreachableError]

GenFinished(g) == g.pc \in {"returned", "thrown"}

(***************************************************************************)
(* GenSpec: generateWatercolourPainting called directly with any source.   *)
(***************************************************************************)
UrlAlphabet == {"data:", "image/", "png", ";base64,", "LF"}

Sources == SeqsUpTo(UrlAlphabet, MaxUrlLen)

NoSvc == [input |-> <<>>, g |-> GenIdle, kinds |-> <<>>]

\* how the caller sees an outcome of the remote call
OutcomeKind(out) ==
    IF out.type = "throw"
    THEN IF Includes(out.text, "c500") \/ Includes(out.text, "INTERNAL")
         THEN "internalError" ELSE "otherError"
    ELSE IF \E i \in 1..Len(out.parts) : out.parts[i].inline
         THEN "image" ELSE "noImage"

SvcInvoke ==
    /\ svc.g.pc = "idle"
    /\ svc' = [svc EXCEPT !.g = GenInvoke(svc.input)]
    /\ UNCHANGED appVars

SvcRemoteSettles ==
    /\ svc.g.pc = "awaiting"
    /\ \E out \in Outcomes :
          svc' = [svc EXCEPT !.g = GenOnResponse(svc.g, out),
                             !.kinds = Append(@, OutcomeKind(out))]
    /\ UNCHANGED appVars

SvcTimerFires ==
    /\ svc.g.pc = "waiting"
    /\ svc' = [svc EXCEPT !.g = GenOnTimer(svc.g)]
    /\ UNCHANGED appVars

\* the error state: null, or a message
NoError == [isNull |-> TRUE, msg |-> <<>>]
Err(m) == [isNull |-> FALSE, msg |-> m]

NoMap == [exists |-> FALSE, center |-> 0]
NoMarker == [exists |-> FALSE, position |-> 0, title |-> <<>>, onMap |-> FALSE]
NoShow == [pc |-> "idle", address |-> <<>>]

NoDone == [outcome |-> "none", rerun |-> FALSE, cachedAtStart |-> <<>>,
           captures |-> 0, captured |-> <<>>, sent |-> <<>>, invoked |-> FALSE,
           callEpoch |-> 0, result |-> <<>>, tick |-> 0, dismissed |-> FALSE]

AppInit ==
    /\ address = <<>>
    /\ error = NoError
    /\ isLoading = FALSE
    /\ mapInitialized = FALSE
    /\ isGeneratingPainting = FALSE
    /\ watercolourPainting = <<>>
    /\ capturedMapImage = <<>>
    /\ mapInstance = NoMap
    /\ markerInstance = NoMarker
    /\ show = NoShow
    /\ initMaps = <<>>
    /\ gen = <<>>
    /\ epoch = 0
    /\ done = NoDone

GenInit ==
    /\ AppInit
    /\ svc \in {[NoSvc EXCEPT !.input = u] : u \in Sources}

GenNext == SvcInvoke \/ SvcRemoteSettles \/ SvcTimerFires

GenSpec == GenInit /\ [][GenNext]_vars

(***************************************************************************)
(* The App component.                                                      *)
(***************************************************************************)
Locations == 1..MaxLoc

\* what the user can type into the address input
Addresses == {<<>>, <<" ">>, <<"a">>}

RECURSIVE TrimLeft(_)
TrimLeft(s) == IF s # <<>> /\ Head(s) = " " THEN TrimLeft(Tail(s)) ELSE s

RECURSIVE TrimRight(_)
TrimRight(s) ==
    IF s # <<>> /\ s[Len(s)] = " " THEN TrimRight(SubSeq(s, 1, Len(s) - 1)) ELSE s

\* A faulty variant: the address is tested without trimming
TrimNone(s) == s

\* String.prototype.trim
Trim(s) == TrimRight(TrimLeft(s))

\* results[0].formatted_address / place.formatted_address
FormattedAddr(loc) == <<"formatted">>

\* the view the map shows after the n-th completed initMap
ViewTok(n) == <<"v1", "v2", "v3", "v4", "v5">>[n]

\* canvas.toDataURL('image/png') of a canvas that shows view n
CaptureUrl(n) == FormatDataUrl(<<"image/", "png">>, <<ViewTok(n)>>)

\* history: the view a capture shows
ViewOf(url) == CHOOSE n \in 1..5 : url = CaptureUrl(n)

\* the outcomes of the remote call explored under the App
AppOutcomes ==
    {Throw(TRUE, <<"c500">>), Throw(TRUE, <<"x">>),
     Response(<<PartA>>), Response(<<PartB>>), Response(<<TextPart(<<"x">>)>>)}

RemoveAt(s, i) == SubSeq(s, 1, i - 1) \o SubSeq(s, i + 1, Len(s))

\* the phase the render shows
Phase ==
    IF isGeneratingPainting THEN "Generating"
    ELSE IF ~mapInitialized THEN "NoView"
    ELSE IF watercolourPainting # <<>> THEN "ResultReady"
    ELSE "ViewReady"

\* onChange of the address input (the input is disabled while isLoading)
TypeAddress ==
    /\ ~isLoading
    /\ \E a \in Addresses : a # address /\ address' = a
    /\ UNCHANGED <<error, isLoading, mapInitialized, isGeneratingPainting,
                   watercolourPainting, capturedMapImage, mapInstance, markerInstance,
                   show, initMaps, gen, epoch, done, svc>>

\* initMap up to its first await: the call is suspended
InvokeInitMap(location, formattedAddr) ==
    initMaps' = Append(initMaps, [location |-> location, formattedAddr |-> formattedAddr])

\* handleShow3DView up to its first await (search button, or Enter in the input)
Show3DView ==
    /\ ~isLoading
    /\ IF Trim(address) = <<>>
       THEN /\ error' = Err(<<"ENTER_ADDRESS">>)
            /\ UNCHANGED <<isLoading, show>>
       ELSE /\ error' = NoError
            /\ isLoading' = TRUE
            /\ show' = [pc |-> "geocoding", address |-> address]
    /\ UNCHANGED <<address, mapInitialized, isGeneratingPainting, watercolourPainting,
                   capturedMapImage, mapInstance, markerInstance, initMaps, gen,
                   epoch, done, svc>>

\* handleShow3DView: the geocoder resolves a location
GeocodeResolves ==
    /\ show.pc = "geocoding"
    /\ Len(initMaps) < MaxPending
    /\ epoch + Len(initMaps) < MaxEpoch
    /\ \E loc \in Locations :
          /\ address' = FormattedAddr(loc)
          /\ InvokeInitMap(loc, FormattedAddr(loc))
    /\ isLoading' = FALSE
    /\ show' = NoShow
    /\ UNCHANGED <<error, mapInitialized, isGeneratingPainting, watercolourPainting,
                   capturedMapImage, mapInstance, markerInstance, gen, epoch, done, svc>>

\* handleShow3DView: no result, or the geocoder (or importLibrary) throws
GeocodeFails ==
    /\ show.pc = "geocoding"
    /\ \E m \in {<<"NOT_FOUND">> \o show.address \o <<"TRY_MORE_SPECIFIC">>,
                 <<"NOT_FOUND">> \o show.address \o <<"CHECK_ADDRESS">>,
                 <<"x">>,
                 <<"UNKNOWN_ERROR">>} :
          error' = Err(m)
    /\ isLoading' = FALSE
    /\ show' = NoShow
    /\ UNCHANGED <<address, mapInitialized, isGeneratingPainting, watercolourPainting,
                   capturedMapImage, mapInstance, markerInstance, initMaps, gen,
                   epoch, done, svc>>

\* the place_changed listener, for a place with a geometry and a formatted address
PlaceChanged ==
    /\ ~isLoading
    /\ Len(initMaps) < MaxPending
    /\ epoch + Len(initMaps) < MaxEpoch
    /\ \E loc \in Locations :
          /\ address' = FormattedAddr(loc)
          /\ InvokeInitMap(loc, FormattedAddr(loc))
    /\ UNCHANGED <<error, isLoading, mapInitialized, isGeneratingPainting,
                   watercolourPainting, capturedMapImage, mapInstance, markerInstance,
                   show, gen, epoch, done, svc>>

\* initMap after its awaits: the map, the marker, and the three state updates
InitMapCompletes ==
    \E i \in 1..Len(initMaps) :
       LET location == initMaps[i].location
           formattedAddr == initMaps[i].formattedAddr
       IN  /\ mapInstance' = [exists |-> TRUE, center |-> location]
           /\ markerInstance' =
                 [exists |-> TRUE, position |-> location, title |-> formattedAddr,
                  onMap |-> markerInstance.exists]
           /\ mapInitialized' = TRUE
           /\ watercolourPainting' = <<>>
           /\ capturedMapImage' = <<>>
           /\ epoch' = epoch + 1
           /\ initMaps' = RemoveAt(initMaps, i)
           /\ UNCHANGED <<address, error, isLoading, isGeneratingPainting, show, gen,
                          done, svc>>

\* initMap: importLibrary rejects, the call ends without touching anything
InitMapFails ==
    \E i \in 1..Len(initMaps) :
       /\ initMaps' = RemoveAt(initMaps, i)
       /\ UNCHANGED <<address, error, isLoading, mapInitialized, isGeneratingPainting,
                      watercolourPainting, capturedMapImage, mapInstance,
                      markerInstance, show, gen, epoch, done, svc>>

\* A faulty variant: the generate button is not disabled while a chain runs
GenerateEnabledNoDisable == mapInitialized

\* A faulty variant: the generate button is rendered before a map exists
GenerateEnabledNoMap == ~isGeneratingPainting

\* the generate button is rendered and enabled
GenerateEnabled == mapInitialized /\ ~isGeneratingPainting

\* the back button is rendered
BackAvailable == watercolourPainting # <<>> /\ ~isGeneratingPainting

\* A faulty variant: the cache is never used
UseCachedNever(isRerunning, cached) == FALSE

\* isRerunning && capturedMapImage
UseCached(isRerunning, cached) == isRerunning /\ cached # <<>>

\* A faulty variant: the catch block leaves the cached capture in place
OnGenerateErrorKeepCapture(msg) ==
    [error |-> Err(msg), watercolourPainting |-> <<>>,
     capturedMapImage |-> capturedMapImage]

\* A faulty variant: the catch block leaves the previous result in place
OnGenerateErrorKeepResult(msg) ==
    [error |-> Err(msg), watercolourPainting |-> watercolourPainting,
     capturedMapImage |-> <<>>]

\* the catch block of handleGenerateWatercolour
OnGenerateError(msg) ==
    [error |-> Err(msg), watercolourPainting |-> <<>>, capturedMapImage |-> <<>>]

\* A faulty variant: back clears the result only
OnBackKeepCapture == [watercolourPainting |-> <<>>, capturedMapImage |-> capturedMapImage]

\* handleBackToMap
OnBack == [watercolourPainting |-> <<>>, capturedMapImage |-> <<>>]

NewChain(isRerunning) ==
    [stage |-> "capturing", rerun |-> isRerunning, cachedAtStart |-> capturedMapImage,
     captures |-> 0, capStart |-> 0, captured |-> <<>>, imageToProcess |-> <<>>,
     invoked |-> FALSE, callEpoch |-> 0, g |-> GenIdle]

DoneOf(c, outcome) ==
    [outcome |-> outcome, rerun |-> c.rerun, cachedAtStart |-> c.cachedAtStart,
     captures |-> c.captures, captured |-> c.captured, sent |-> c.imageToProcess,
     invoked |-> c.invoked, callEpoch |-> c.callEpoch, result |-> c.g.result,
     tick |-> 1 - done.tick, dismissed |-> FALSE]

\* generateWatercolourPainting(imageToProcess) is called
CallGenerator(c, image) ==
    [c EXCEPT !.stage = "generating", !.imageToProcess = image, !.invoked = TRUE,
              !.callEpoch = epoch, !.g = GenInvoke(image)]

\* the chain c ends in the catch block, then finally; rest are the other chains
ChainFails(c, msg, rest) ==
    LET upd == OnGenerateError(msg)
    IN  /\ error' = upd.error
        /\ watercolourPainting' = upd.watercolourPainting
        /\ capturedMapImage' = upd.capturedMapImage
        /\ isGeneratingPainting' = FALSE
        /\ gen' = rest
        /\ done' = DoneOf(c, "failed")

\* the chain c ends with setWatercolourPainting, then finally
ChainSucceeds(c, newCaptured, newError, rest) ==
    /\ watercolourPainting' = c.g.result
    /\ capturedMapImage' = newCaptured
    /\ error' = newError
    /\ isGeneratingPainting' = FALSE
    /\ gen' = rest
    /\ done' = DoneOf(c, "ok")

\* the chain goes on: c is suspended at an await
ChainSuspends(c, newCaptured, newError, others) ==
    /\ gen' = others
    /\ capturedMapImage' = newCaptured
    /\ error' = newError
    /\ isGeneratingPainting' = TRUE
    /\ UNCHANGED <<watercolourPainting, done>>

\* after a step of the generator inside chain c
AfterGenerator(c, newCaptured, newError, rest, others) ==
    IF c.g.pc = "returned" THEN ChainSucceeds(c, newCaptured, newError, rest)
    ELSE IF c.g.pc = "thrown" THEN ChainFails(c, c.g.err, rest)
    ELSE ChainSuspends(c, newCaptured, newError, others)

\* handleGenerateWatercolour up to its first await (the generate button)
Generate ==
    /\ GenerateEnabled
    /\ Len(gen) < MaxChains
    /\ LET isRerunning == watercolourPainting # <<>>
           c0 == NewChain(isRerunning)
       IN  IF UseCached(isRerunning, capturedMapImage)
           THEN LET c == CallGenerator(c0, capturedMapImage)
                IN  AfterGenerator(c, capturedMapImage, NoError, gen, Append(gen, c))
           ELSE LET c == [c0 EXCEPT !.captures = 1, !.capStart = epoch]
                IN  IF ~mapInstance.exists
                    THEN ChainFails(c, <<"MAP_NOT_INITIALIZED">>, gen)
                    ELSE ChainSuspends(c, capturedMapImage, NoError, Append(gen, c))
    /\ UNCHANGED <<address, isLoading, mapInitialized, mapInstance, markerInstance,
                   show, initMaps, epoch, svc>>

\* captureMapView resolves: html2canvas has drawn a view the map showed since the
\* capture began; then setCapturedMapImage and the call of the generator
CaptureResolves ==
    \E i \in 1..Len(gen) :
       /\ gen[i].stage = "capturing"
       /\ \E n \in gen[i].capStart..epoch :
             LET url == CaptureUrl(n)
                 c == CallGenerator([gen[i] EXCEPT !.captured = url], url)
             IN  AfterGenerator(c, url, error, RemoveAt(gen, i),
                                [gen EXCEPT ![i] = c])
       /\ UNCHANGED <<address, isLoading, mapInitialized, mapInstance, markerInstance,
                      show, initMaps, epoch, svc>>

\* captureMapView rejects: html2canvas or toDataURL throws an Error or another value
CaptureRejects ==
    \E i \in 1..Len(gen) :
       /\ gen[i].stage = "capturing"
       /\ \E m \in {<<"CAPTURE_ERROR">>, <<"PAINTING_FAILED">>} :
             ChainFails(gen[i], m, RemoveAt(gen, i))
       /\ UNCHANGED <<address, isLoading, mapInitialized, mapInstance, markerInstance,
                      show, initMaps, epoch, svc>>

\* the remote call of a chain settles
RemoteSettles ==
    \E i \in 1..Len(gen) :
       /\ gen[i].stage = "generating"
       /\ gen[i].g.pc = "awaiting"
       /\ \E out \in AppOutcomes :
             LET c == [gen[i] EXCEPT !.g = GenOnResponse(gen[i].g, out)]
             IN  AfterGenerator(c, capturedMapImage, error, RemoveAt(gen, i),
                                [gen EXCEPT ![i] = c])
       /\ UNCHANGED <<address, isLoading, mapInitialized, mapInstance, markerInstance,
                      show, initMaps, epoch, svc>>

\* the backoff timer of a chain fires
TimerFires ==
    \E i \in 1..Len(gen) :
       /\ gen[i].stage = "generating"
       /\ gen[i].g.pc = "waiting"
       /\ LET c == [gen[i] EXCEPT !.g = GenOnTimer(gen[i].g)]
          IN  AfterGenerator(c, capturedMapImage, error, RemoveAt(gen, i),
                             [gen EXCEPT ![i] = c])
       /\ UNCHANGED <<address, isLoading, mapInitialized, mapInstance, markerInstance,
                      show, initMaps, epoch, svc>>

\* handleBackToMap (the back button)
BackToMap ==
    /\ BackAvailable
    /\ watercolourPainting' = OnBack.watercolourPainting
    /\ capturedMapImage' = OnBack.capturedMapImage
    /\ done' = [done EXCEPT !.dismissed = TRUE]
    /\ UNCHANGED <<address, error, isLoading, mapInitialized, isGeneratingPainting,
                   mapInstance, markerInstance, show, initMaps, gen, epoch, svc>>

Init ==
    /\ AppInit
    /\ svc = NoSvc

Next ==
    \/ TypeAddress
    \/ Show3DView
    \/ GeocodeResolves
    \/ GeocodeFails
    \/ PlaceChanged
    \/ InitMapCompletes
    \/ InitMapFails
    \/ Generate
    \/ CaptureResolves
    \/ CaptureRejects
    \/ RemoteSettles
    \/ TimerFires
    \/ BackToMap

Spec == Init /\ [][Next]_vars

(***************************************************************************)
(* Properties of generateWatercolourPainting, checked under GenSpec.       *)
(***************************************************************************)
IsPrefix(a, b) == Len(a) <= Len(b) /\ SubSeq(b, 1, Len(a)) = a

IsInfix(a, b) ==
    \E i \in 0..(Len(b) - Len(a)) : SubSeq(b, i + 1, i + Len(a)) = a

NumCalls(trace) == Cardinality({i \in 1..Len(trace) : trace[i].ev = "call"})

\* call 1, 1000 ms, call 2, 2000 ms, call 3
FullTrace ==
    <<Ev("call", 1), Ev("wait", 1000), Ev("call", 2), Ev("wait", 2000), Ev("call", 3)>>

AllInternal(kinds) == \A i \in 1..Len(kinds) : kinds[i] = "internalError"

\* the part of C1 that does not depend on the kind of the thrown value
RetryExhaustion(g) ==
    /\ Len(svc.kinds) <= 3
    /\ GenFinished(g) <=> Len(svc.kinds) = 3
    /\ IsPrefix(g.trace, FullTrace)
    /\ GenFinished(g) =>
          /\ g.pc = "thrown"
          /\ g.trace = FullTrace
          /\ Len(g.err) >= 2 /\ g.err[1] = "FAILED_AFTER" /\ g.err[2] = "3"

C2_AsStated ==
    (Len(svc.kinds) = 1 /\ svc.kinds[1] = "noImage") =>
        /\ svc.g.pc = "thrown"
        /\ svc.g.trace = <<Ev("call", 1)>>
        /\ IsInfix(svc.g.last.text, svc.g.err)

\* the form data:<image mime>;base64,<payload> with a payload that is not empty
WellFormedSource(s) ==
    \E k \in 1..Len(s) :
       /\ Len(s) >= 4 + k
       /\ s[1] = "data:"
       /\ s[2] = "image/"
       /\ \A j \in 3..(2 + k) : IsWordTok(s[j])
       /\ s[3 + k] = ";base64,"

\* C3 as stated: a source that has not the form data:<image mime>;base64,<payload>,
\* or whose payload is empty, fails at once with the invalid-input error, and no
\* request is sent and no wait occurs.
C3_AsStated ==
    (svc.g.pc # "idle" /\ ~WellFormedSource(svc.input)) =>
        /\ svc.g.pc = "thrown"
        /\ svc.g.err = InvalidUrlError
        /\ svc.g.trace = <<>>

\* C4: an error of the remote call is retried iff it is an internal error and
\* fewer than 3 attempts were made; otherwise the call ends at once, with exactly
\* k remote calls made on attempt k and no wait after the failing call.
C4_RetryIffInternal ==
    LET g == svc.g
        k == Len(svc.kinds)
    IN  (k >= 1 /\ g.last.type = "throw" /\ g.pc \in {"waiting", "thrown"}) =>
           /\ k \in 1..3
           /\ (g.pc = "waiting") <=> (svc.kinds[k] = "internalError" /\ k < 3)
           /\ g.pc = "waiting" => g.trace[Len(g.trace)].ev = "wait"
           /\ g.pc = "thrown" =>
                 /\ NumCalls(g.trace) = k
                 /\ g.trace[Len(g.trace)] = Ev("call", k)
                 /\ Len(g.trace) = 2 * k - 1

C4_Witness ==
    /\ svc.kinds = <<"internalError", "otherError">>
    /\ svc.g.pc = "thrown"
    /\ svc.g.trace = <<Ev("call", 1), Ev("wait", 1000), Ev("call", 2)>>

\* C5: if the first k-1 remote calls fail with an internal error and call k
\* returns a response with an inline image part, the call returns
\* data:<mime>;base64,<data> of the first such part, after exactly k remote calls
\* and the k-1 waits of 1000, 2000 ms.
C5_FirstImageReturned ==
    LET g == svc.g
        k == Len(svc.kinds)
    IN  (/\ k >= 1
         /\ svc.kinds[k] = "image"
         /\ \A i \in 1..(k - 1) : svc.kinds[i] = "internalError") =>
           /\ k <= 3
           /\ g.pc = "returned"
           /\ g.trace = SubSeq(FullTrace, 1, 2 * k - 1)
           /\ \E i \in 1..Len(g.last.parts) :
                 /\ g.last.parts[i].inline
                 /\ \A j \in 1..(i - 1) : ~g.last.parts[j].inline
                 /\ g.result = <<"data:">> \o g.last.parts[i].mimeType
                                \o <<";base64,">> \o g.last.parts[i].data

C5_Witness ==
    /\ svc.kinds = <<"internalError", "internalError", "image">>
    /\ svc.g.last.parts = <<PartB, PartA>>
    /\ svc.g.result = <<"data:", "image/", "jpeg", ";base64,", "B">>

(***************************************************************************)
(* Properties of the App, checked under Spec.                              *)
(***************************************************************************)
CacheRule(rerun, cachedAtStart, captures, captured, invoked, sent) ==
    /\ (rerun /\ cachedAtStart # <<>>) =>
          captures = 0 /\ invoked /\ sent = cachedAtStart
    /\ cachedAtStart = <<>> =>
          captures = 1 /\ (invoked => (captured # <<>> /\ sent = captured))

\* C6: a re-run from ResultReady with a cached capture never invokes
\* captureMapView and sends exactly the cached capture; a generation started with
\* no cached capture invokes captureMapView exactly once and sends its result.
C6_CacheReuse ==
    /\ \A i \in 1..Len(gen) :
          CacheRule(gen[i].rerun, gen[i].cachedAtStart, gen[i].captures,
                    gen[i].captured, gen[i].invoked, gen[i].imageToProcess)
    /\ done.outcome # "none" =>
          CacheRule(done.rerun, done.cachedAtStart, done.captures, done.captured,
                    done.invoked, done.sent)

C6_Witness ==
    /\ done.outcome = "ok"
    /\ done.rerun
    /\ done.cachedAtStart # <<>>
    /\ done.captures = 0
    /\ done.sent = done.cachedAtStart

\* C7 as stated: once a new location is resolved (initMap completed), no later
\* call of the generator receives a capture taken before that resolution.
C7_AsStated ==
    /\ \A i \in 1..Len(gen) :
          gen[i].invoked => ViewOf(gen[i].imageToProcess) >= gen[i].callEpoch
    /\ (done.outcome # "none" /\ done.invoked) => ViewOf(done.sent) >= done.callEpoch

\* C8: every failure inside a generation chain ends the chain in ViewReady, with
\* no result, no cached capture, the generating flag false and an error message.
C8_FailureClears ==
    [][(done'.tick # done.tick /\ done'.outcome = "failed") =>
         /\ Phase' = "ViewReady"
         /\ watercolourPainting' = <<>>
         /\ capturedMapImage' = <<>>
         /\ ~isGeneratingPainting'
         /\ ~error'.isNull]_vars

C8_Witness ==
    /\ done.outcome = "failed"
    /\ done.invoked
    /\ done.captured # <<>>
    /\ Phase = "ViewReady"
    /\ ~error.isNull
    /\ capturedMapImage = <<>>

\* C9: from ResultReady, back always yields ViewReady with no result and no
\* cached capture; back is not available while a generation is in flight.
C9_BackClears ==
    [][/\ BackAvailable => (Len(gen) = 0 /\ Phase = "ResultReady")
       /\ BackToMap =>
             /\ Phase' = "ViewReady"
             /\ watercolourPainting' = <<>>
             /\ capturedMapImage' = <<>>]_vars

C9_Witness ==
    /\ done.dismissed
    /\ done.outcome = "ok"
    /\ done.rerun
    /\ Phase = "ViewReady"
    /\ watercolourPainting = <<>>
    /\ capturedMapImage = <<>>

\* C10: at most one generation chain is in flight; while one is, the phase is
\* Generating and the generate button is disabled.
C10_OneChain ==
    /\ Len(gen) <= 1
    /\ isGeneratingPainting <=> Len(gen) = 1
    /\ Len(gen) = 1 => ~GenerateEnabled

C10_Witness ==
    /\ Len(gen) = 1
    /\ gen[1].g.pc = "waiting"
    /\ gen[1].g.attempt = 2
    /\ mapInitialized
    /\ ~GenerateEnabled

\* a chain ends in this step
ChainEnds == done'.tick # done.tick

\* C11 as stated: when the generator succeeds, the chain ends in ResultReady
\* holding the returned image, and the capture that was sent is still cached.
C11_AsStated ==
    [][(ChainEnds /\ done'.outcome = "ok") =>
         /\ Phase' = "ResultReady"
         /\ watercolourPainting' = done'.result
         /\ capturedMapImage' = done'.sent]_vars

\* C12: in every ResultReady state the held result is the output of the most
\* recent successful generation, which is the last chain that ended; when a
\* re-run chain ends, the result held is its own output or none.
C12_ResultIsLatest ==
    [][/\ Phase = "ResultReady" =>
             (done.outcome = "ok" /\ watercolourPainting = done.result)
       /\ Phase' = "ResultReady" =>
             (done'.outcome = "ok" /\ watercolourPainting' = done'.result)
       /\ (ChainEnds /\ done'.rerun) =>
             watercolourPainting' =
                 (IF done'.outcome = "ok" THEN done'.result ELSE <<>>)]_vars

C12_Witness ==
    /\ Phase = "ViewReady"
    /\ done.outcome = "failed"
    /\ done.rerun
    /\ done.invoked
    /\ ~done.dismissed
    /\ watercolourPainting = <<>>

\* C14 as stated: in every ResultReady state the held result was generated from
\* a capture taken after the most recent location resolution.
C14_AsStated ==
    (Phase = "ResultReady" /\ done.outcome = "ok") => ViewOf(done.sent) >= epoch

\* C15: mapInitialized implies that a map instance exists and is never reset, a
\* generation runs only while mapInitialized is true, and no chain fails because
\* the map is missing.
C15_MapBeforeCapture ==
    /\ mapInitialized <=> epoch >= 1
    /\ mapInitialized => mapInstance.exists
    /\ GenerateEnabled => mapInstance.exists
    /\ Len(gen) > 0 => (mapInitialized /\ mapInstance.exists)
    /\ done.outcome # "none" => mapInitialized
    /\ error # Err(<<"MAP_NOT_INITIALIZED">>)

C15_Witness ==
    /\ Len(gen) = 1
    /\ gen[1].stage = "capturing"
    /\ gen[1].captures = 1
    /\ mapInstance.exists
    /\ epoch = 2

\* C16: whenever no chain is in flight, a cached capture implies a held result,
\* so ViewReady never holds a cached capture.
C16_NoCacheInViewReady ==
    /\ Len(gen) = 0 => (capturedMapImage # <<>> => watercolourPainting # <<>>)
    /\ Phase = "ViewReady" => capturedMapImage = <<>>

C16_Witness ==
    /\ Len(gen) = 0
    /\ Phase = "ResultReady"
    /\ capturedMapImage # <<>>
    /\ done.outcome = "ok"
    /\ done.rerun

\* an address that is empty or holds white space only
IsBlank(a) == \A i \in 1..Len(a) : a[i] = " "

\* what a submission that resolves nothing leaves alone
SubmissionFrame ==
    UNCHANGED <<address, mapInitialized, isGeneratingPainting, watercolourPainting,
                capturedMapImage, mapInstance, markerInstance, initMaps, gen, epoch>>

\* C17: an address submission that resolves no location (blank address, no
\* result, geocoder error) changes only the error message and the loading flag;
\* phase, result, cached capture and map are left alone, and the loading flag is
\* false when the chain ends.
C17_FailedSubmissionFrame ==
    [][/\ (Show3DView /\ IsBlank(address)) =>
             /\ SubmissionFrame
             /\ Phase' = Phase
             /\ show'.pc = "idle"
             /\ ~isLoading'
             /\ ~error'.isNull
       /\ (Show3DView /\ ~IsBlank(address)) =>
             /\ SubmissionFrame
             /\ Phase' = Phase
             /\ show'.pc = "geocoding"
       /\ GeocodeFails =>
             /\ SubmissionFrame
             /\ Phase' = Phase
             /\ show'.pc = "idle"
             /\ ~isLoading'
             /\ ~error'.isNull]_vars

C17_Witness ==
    /\ ~error.isNull
    /\ Len(error.msg) >= 1
    /\ error.msg[1] = "NOT_FOUND"
    /\ ~isLoading
    /\ show.pc = "idle"
    /\ Phase = "ResultReady"
    /\ capturedMapImage # <<>>

(***************************************************************************)
(* FairSpec: every capture and every remote call settles, and every        *)
(* backoff timer fires: the step a chain in flight is waiting for is taken.*)
(***************************************************************************)
FairSpec ==
    Spec /\ WF_vars(CaptureResolves \/ CaptureRejects \/ RemoteSettles \/ TimerFires)

NumWaits(trace) == Cardinality({i \in 1..Len(trace) : trace[i].ev = "wait"})

\* C13: if every capture and every remote call returns, each chain leaves
\* Generating after at most 3 remote calls and 2 waits; the generator ends by
\* returning an image data URL or by throwing; and when the chain has ended
\* generation can be requested again.
C13_ChainTerminates ==
    /\ [](\A i \in 1..Len(gen) :
             /\ NumCalls(gen[i].g.trace) <= 3
             /\ NumWaits(gen[i].g.trace) <= 2
             /\ gen[i].g.pc \in {"idle", "awaiting", "waiting"})
    /\ [][ChainEnds =>
            /\ Phase' \in {"ResultReady", "ViewReady"}
            /\ GenerateEnabled'
            /\ done'.outcome = "ok" =>
                  (WellFormedSource(done'.result) /\ watercolourPainting' = done'.result)
            /\ done'.outcome = "failed" => ~error'.isNull]_vars
    /\ isGeneratingPainting ~> ~isGeneratingPainting

C13_Witness ==
    /\ done.outcome = "failed"
    /\ ~error.isNull
    /\ Len(error.msg) >= 2
    /\ error.msg[1] = "FAILED_AFTER"
    /\ error.msg[2] = "3"
    /\ Phase = "ViewReady"
    /\ GenerateEnabled

====
